---- MODULE Spec2Model ----
(***************************************************************************)
(* Model of the copilot-testing scaffold.                                  *)
(*                                                                         *)
(*  - packages/server/src/main.ts: the bootstrap routine                   *)
(*        async function bootstrap() {                                     *)
(*          const app = await NestFactory.create(AppModule);               *)
(*          await app.listen(3000);                                        *)
(*          console.log('Server running on http://localhost:3000');        *)
(*        }                                                                *)
(*        bootstrap();                                                     *)
(*    together with the environment it runs in: the framework promises     *)
(*    it awaits, the TCP ports of the host, the environment variables of   *)
(*    the process and the HTTP clients.                                    *)
(*  - .eslintrc.cjs: the lint configuration and the way ESLint derives     *)
(*    the configuration of one file from it.                               *)
(***************************************************************************)
EXTENDS Integers, Sequences, FiniteSets, TLC

VARIABLES
    pc,             \* position of bootstrap: main, await_create, await_listen, returned, threw
    running,        \* the server process is alive
    bootstrapCalls, \* number of invocations of bootstrap()
    createCalls,    \* arguments of the NestFactory.create calls, in order
    createP,        \* promise returned by NestFactory.create
    app,            \* value of the local `app`
    listenCalls,    \* [target, port] of the app.listen calls, in order
    listenP,        \* promise returned by app.listen
    boundPorts,     \* ports the HTTP server of this process is listening on
    othersBound,    \* ports held by other processes of the host
    env,            \* PORT environment variable of the process: {} when unset
    console,        \* messages written with console.log, in order
    rejection,      \* reason of bootstrap's rejected promise
    created,        \* the application object NestFactory.create resolved with
    sent,           \* number of requests the clients have sent so far
    pending,        \* requests accepted by this server and not yet answered
    answered,       \* responses this server has written
    notServed,      \* number of requests that never reached this server
    linted          \* ESLint run: the files linted so far, in order, each with
                    \* the overrides applied to it and its parserOptions.project

\* bootstrap's own state: its position, its local and what it has done
bootVars == <<pc, bootstrapCalls, createCalls, app, listenCalls, console, rejection>>

\* the framework's state: the two promises, the application object, the socket
frameworkVars == <<createP, created, listenP, boundPorts>>

\* the host the process runs on
hostVars == <<othersBound, env>>

\* the HTTP clients and the requests in flight
clientVars == <<sent, pending, answered, notServed>>

vars == <<running, bootVars, frameworkVars, hostVars, clientVars, linted>>

(***************************************************************************)
(* Bounds and the values the environment draws from.                       *)
(***************************************************************************)
MaxRequests == 2

ListenPort == 3000

LoggedPort == 3000

Ports == {ListenPort, 8080}

Paths == {"/", "/missing"}

ListenErrors == {"EADDRINUSE", "EACCES"}

StartupMessage ==
    [text |-> "Server running on", scheme |-> "http", host |-> "localhost",
     port |-> LoggedPort]

(***************************************************************************)
(* The server process.                                                     *)
(***************************************************************************)
ServerInit ==
    /\ pc = "main"
    /\ running = TRUE
    /\ bootstrapCalls = 0
    /\ createCalls = <<>>
    /\ createP = "none"
    /\ created = "undefined"
    /\ app = "undefined"
    /\ listenCalls = <<>>
    /\ listenP = "none"
    /\ boundPorts = {}
    /\ othersBound \in SUBSET Ports
    /\ env \in {{}} \cup {{p} : p \in Ports}
    /\ console = <<>>
    /\ rejection = "none"
    /\ sent = 0
    /\ pending = <<>>
    /\ answered = <<>>
    /\ notServed = 0

\* Mutant of Main: the entry point starts bootstrap twice.
Main_Twice ==
    /\ pc = "main"
    /\ running
    /\ bootstrapCalls' = bootstrapCalls + 2
    /\ createCalls' = createCalls \o <<"AppModule", "AppModule">>
    /\ createP' = "pending"
    /\ pc' = "await_create"
    /\ UNCHANGED <<running, app, listenCalls, console, rejection, created,
                   listenP, boundPorts, hostVars, clientVars, linted>>

\* main.ts, last statement: bootstrap() is called; it runs synchronously up
\* to its first await, so NestFactory.create(AppModule) is invoked here.
Main ==
    /\ pc = "main"
    /\ running
    /\ bootstrapCalls' = bootstrapCalls + 1
    /\ createCalls' = Append(createCalls, "AppModule")
    /\ createP' = "pending"
    /\ pc' = "await_create"
    /\ UNCHANGED <<running, app, listenCalls, console, rejection, created,
                   listenP, boundPorts, hostVars, clientVars, linted>>

\* The framework settles the promise of NestFactory.create: it resolves with
\* the application object, or rejects.
CreateFulfil ==
    /\ running
    /\ createP = "pending"
    /\ createP' = "fulfilled"
    /\ created' = "INestApplication"
    /\ UNCHANGED <<running, bootVars, listenP, boundPorts, hostVars,
                   clientVars, linted>>

CreateReject ==
    /\ running
    /\ createP = "pending"
    /\ createP' = "rejected"
    /\ UNCHANGED <<running, bootVars, created, listenP, boundPorts, hostVars,
                   clientVars, linted>>

\* Mutant of ResumeCreate: the port is read from the environment
\* (process.env.PORT ?? 3000).
ResumeCreate_EnvPort ==
    /\ running
    /\ pc = "await_create"
    /\ createP = "fulfilled"
    /\ app' = created
    /\ \E p \in (IF env = {} THEN {ListenPort} ELSE env) :
           listenCalls' = Append(listenCalls, [target |-> app', port |-> p])
    /\ listenP' = "pending"
    /\ pc' = "await_listen"
    /\ UNCHANGED <<running, bootstrapCalls, createCalls, console, rejection,
                   createP, created, boundPorts, hostVars, clientVars, linted>>

\* Mutant of ResumeCreate: app.listen(3000) is not awaited, the message is
\* logged as soon as listen has been called.
ResumeCreate_LogEarly ==
    /\ running
    /\ pc = "await_create"
    /\ createP = "fulfilled"
    /\ app' = created
    /\ listenCalls' = Append(listenCalls, [target |-> app', port |-> ListenPort])
    /\ listenP' = "pending"
    /\ console' = Append(console, StartupMessage)
    /\ pc' = "returned"
    /\ UNCHANGED <<running, bootstrapCalls, createCalls, rejection,
                   createP, created, boundPorts, hostVars, clientVars, linted>>

\* Mutant of ResumeCreate: the server listens on another port than 3000.
ResumeCreate_OtherPort ==
    /\ running
    /\ pc = "await_create"
    /\ createP = "fulfilled"
    /\ app' = created
    /\ \E p \in Ports \ {ListenPort} :
           listenCalls' = Append(listenCalls, [target |-> app', port |-> p])
    /\ listenP' = "pending"
    /\ pc' = "await_listen"
    /\ UNCHANGED <<running, bootstrapCalls, createCalls, console, rejection,
                   createP, created, boundPorts, hostVars, clientVars, linted>>

\* bootstrap resumes after `await NestFactory.create(AppModule)`: the result
\* is assigned to app and app.listen(3000) is invoked.
ResumeCreate ==
    /\ running
    /\ pc = "await_create"
    /\ createP = "fulfilled"
    /\ app' = created
    /\ listenCalls' = Append(listenCalls, [target |-> app', port |-> ListenPort])
    /\ listenP' = "pending"
    /\ pc' = "await_listen"
    /\ UNCHANGED <<running, bootstrapCalls, createCalls, console, rejection,
                   createP, created, boundPorts, hostVars, clientVars, linted>>

\* Mutant of ThrowCreate: the failure of create is caught and startup goes on
\* to app.listen(3000).
ThrowCreate_Swallow ==
    /\ running
    /\ pc = "await_create"
    /\ createP = "rejected"
    /\ listenCalls' = Append(listenCalls, [target |-> app, port |-> ListenPort])
    /\ listenP' = "pending"
    /\ pc' = "await_listen"
    /\ UNCHANGED <<running, bootstrapCalls, createCalls, app, console,
                   rejection, createP, created, boundPorts, hostVars,
                   clientVars, linted>>

\* The await of a rejected create promise throws; bootstrap has no try/catch,
\* so its own promise is rejected.
ThrowCreate ==
    /\ running
    /\ pc = "await_create"
    /\ createP = "rejected"
    /\ pc' = "threw"
    /\ rejection' = "create"
    /\ UNCHANGED <<running, bootstrapCalls, createCalls, app, listenCalls,
                   console, frameworkVars, hostVars, clientVars, linted>>

\* The port app.listen was last asked for.
RequestedPort == listenCalls[Len(listenCalls)].port

\* The HTTP server of app.listen binds the requested port when it is free.
ServerBind ==
    /\ running
    /\ listenP = "pending"
    /\ boundPorts = {}
    /\ RequestedPort \notin othersBound
    /\ boundPorts' = {RequestedPort}
    /\ UNCHANGED <<running, bootVars, createP, created, listenP, hostVars,
                   clientVars, linted>>

\* The promise of app.listen is fulfilled once the server is listening.
ListenFulfil ==
    /\ running
    /\ listenP = "pending"
    /\ boundPorts # {}
    /\ listenP' = "fulfilled"
    /\ UNCHANGED <<running, bootVars, createP, created, boundPorts, hostVars,
                   clientVars, linted>>

\* The promise of app.listen is rejected: the port is in use, or another error.
ListenReject(err) ==
    /\ running
    /\ listenP = "pending"
    /\ boundPorts = {}
    /\ (err = "EADDRINUSE") <=> (RequestedPort \in othersBound)
    /\ listenP' = "rejected"
    /\ UNCHANGED <<running, bootVars, createP, created, boundPorts, hostVars,
                   clientVars, linted>>

\* Mutant of ResumeListen: the application is closed after the message.
ResumeListen_Close ==
    /\ running
    /\ pc = "await_listen"
    /\ listenP = "fulfilled"
    /\ console' = Append(console, StartupMessage)
    /\ boundPorts' = {}
    /\ pc' = "returned"
    /\ UNCHANGED <<running, bootstrapCalls, createCalls, app, listenCalls,
                   rejection, createP, created, listenP, hostVars, clientVars,
                   linted>>

\* Mutant of ResumeListen: the URL of the message names another port.
ResumeListen_WrongUrl ==
    /\ running
    /\ pc = "await_listen"
    /\ listenP = "fulfilled"
    /\ \E p \in Ports \ {LoggedPort} :
           console' = Append(console, [StartupMessage EXCEPT !.port = p])
    /\ pc' = "returned"
    /\ UNCHANGED <<running, bootstrapCalls, createCalls, app, listenCalls,
                   rejection, frameworkVars, hostVars, clientVars, linted>>

\* bootstrap resumes after `await app.listen(3000)`: it logs and returns.
ResumeListen ==
    /\ running
    /\ pc = "await_listen"
    /\ listenP = "fulfilled"
    /\ console' = Append(console, StartupMessage)
    /\ pc' = "returned"
    /\ UNCHANGED <<running, bootstrapCalls, createCalls, app, listenCalls,
                   rejection, frameworkVars, hostVars, clientVars, linted>>

\* Mutant of ThrowListen: a failed listen is retried.
ThrowListen_Retry ==
    /\ running
    /\ pc = "await_listen"
    /\ listenP = "rejected"
    /\ Len(listenCalls) < 3
    /\ listenCalls' = Append(listenCalls, [target |-> app, port |-> ListenPort])
    /\ listenP' = "pending"
    /\ UNCHANGED <<running, pc, bootstrapCalls, createCalls, app, console,
                   rejection, createP, created, boundPorts, hostVars,
                   clientVars, linted>>

\* The await of a rejected listen promise throws out of bootstrap.
ThrowListen ==
    /\ running
    /\ pc = "await_listen"
    /\ listenP = "rejected"
    /\ pc' = "threw"
    /\ rejection' = "listen"
    /\ UNCHANGED <<running, bootstrapCalls, createCalls, app, listenCalls,
                   console, frameworkVars, hostVars, clientVars, linted>>

\* `bootstrap();` attaches no handler to the returned promise: the rejection
\* is unhandled and the runtime ends the process.
UnhandledRejection ==
    /\ running
    /\ pc = "threw"
    /\ running' = FALSE
    /\ boundPorts' = {}
    /\ pending' = <<>>
    /\ UNCHANGED <<bootVars, createP, created, listenP, hostVars, sent,
                   answered, notServed, linted>>

(***************************************************************************)
(* The host: other processes take and release ports this one does not hold. *)
(***************************************************************************)
OtherBind(p) ==
    /\ p \notin othersBound
    /\ p \notin boundPorts
    /\ othersBound' = othersBound \cup {p}
    /\ UNCHANGED <<running, bootVars, frameworkVars, env, clientVars, linted>>

OtherRelease(p) ==
    /\ p \in othersBound
    /\ othersBound' = othersBound \ {p}
    /\ UNCHANGED <<running, bootVars, frameworkVars, env, clientVars, linted>>

(***************************************************************************)
(* HTTP clients and the request handling of the application.               *)
(***************************************************************************)
\* A client sends GET path to localhost:port. The connection is accepted by
\* this process only when its server is listening on that port.
SendRequest(port, path) ==
    /\ sent < MaxRequests
    /\ sent' = sent + 1
    /\ IF running /\ port \in boundPorts
       THEN /\ pending' = Append(pending, [port |-> port, path |-> path])
            /\ UNCHANGED notServed
       ELSE /\ notServed' = notServed + 1
            /\ UNCHANGED pending
    /\ UNCHANGED <<running, bootVars, frameworkVars, hostVars, answered, linted>>

\* The status the application answers a GET with: the scaffold has the root
\* route only.
RouteStatus(path) == IF path = "/" THEN 200 ELSE 404

\* The application answers the oldest accepted request.
HandleRequest ==
    /\ running
    /\ pending # <<>>
    /\ Head(pending).port \in boundPorts
    /\ answered' = Append(answered,
                          [port |-> Head(pending).port,
                           path |-> Head(pending).path,
                           status |-> RouteStatus(Head(pending).path)])
    /\ pending' = Tail(pending)
    /\ UNCHANGED <<running, bootVars, frameworkVars, hostVars, sent,
                   notServed, linted>>

(***************************************************************************)
(* Specification of the server process.                                    *)
(***************************************************************************)
Init ==
    /\ ServerInit
    /\ linted = <<>>

Next ==
    \/ Main
    \/ CreateFulfil
    \/ CreateReject
    \/ ResumeCreate
    \/ ThrowCreate
    \/ ServerBind
    \/ ListenFulfil
    \/ \E err \in ListenErrors : ListenReject(err)
    \/ ResumeListen
    \/ ThrowListen
    \/ UnhandledRejection
    \/ \E p \in Ports : OtherBind(p)
    \/ \E p \in Ports : OtherRelease(p)
    \/ \E p \in Ports, path \in Paths : SendRequest(p, path)
    \/ HandleRequest

Spec == Init /\ [][Next]_vars

\* The event loop runs every continuation that is ready, the framework settles
\* every promise it returned, and the application answers what it accepted.
\* Nothing is assumed of the clients, of the other processes of the host, or
\* of when the runtime ends a process whose startup was rejected.
FairSpec ==
    /\ Spec
    /\ WF_vars(Main)
    /\ WF_vars(CreateFulfil \/ CreateReject)
    /\ WF_vars(ResumeCreate)
    /\ WF_vars(ThrowCreate)
    /\ WF_vars(ServerBind \/ \E err \in ListenErrors : ListenReject(err))
    /\ WF_vars(ListenFulfil)
    /\ WF_vars(ResumeListen)
    /\ WF_vars(ThrowListen)
    /\ WF_vars(HandleRequest)

(***************************************************************************)
(* .eslintrc.cjs and the configuration ESLint gives one file.              *)
(*                                                                         *)
(* A path is the sequence of its directories, a name and an extension. A   *)
(* `files` pattern is a sequence of directory patterns and an extension:   *)
(* '*.ts' is [dir |-> <<>>, ext |-> "ts"], 'packages/server/**/*.ts' is    *)
(* [dir |-> <<"packages", "server", "**">>, ext |-> "ts"].                 *)
(***************************************************************************)
\* The source files of the workspace packages.
LintFiles ==
    {[dir |-> <<"packages", "client", "src">>, name |-> "main", ext |-> "tsx"],
     [dir |-> <<"packages", "client", "src">>, name |-> "App", ext |-> "tsx"],
     [dir |-> <<"packages", "server", "src">>, name |-> "main", ext |-> "ts"],
     [dir |-> <<"packages", "server", "src">>, name |-> "app.controller", ext |-> "ts"],
     [dir |-> <<"packages", "server", "src">>, name |-> "app.module", ext |-> "ts"],
     [dir |-> <<"packages", "server", "src">>, name |-> "app.service", ext |-> "ts"]}

\* parserOptions.project of the base configuration.
BaseProject ==
    <<<<"tsconfig.json">>, <<"packages", "*", "tsconfig.json">>>>

\* The overrides array; project is <<>> where an entry sets no parserOptions.
overrides ==
    <<[files |-> {[dir |-> <<>>, ext |-> "ts"], [dir |-> <<>>, ext |-> "tsx"]},
       project |-> <<>>],
      [files |-> {[dir |-> <<"packages", "server", "**">>, ext |-> "ts"]},
       project |-> <<<<"packages", "server", "tsconfig.json">>>>]>>

\* Glob match of directory patterns against directories: "**" spans any
\* number of directories, "*" one, another segment itself.
RECURSIVE GlobDirs(_, _)
GlobDirs(pat, dir) ==
    IF pat = <<>> THEN dir = <<>>
    ELSE IF Head(pat) = "**"
         THEN \/ GlobDirs(Tail(pat), dir)
              \/ (dir # <<>> /\ GlobDirs(pat, Tail(dir)))
         ELSE /\ dir # <<>>
              /\ Head(pat) \in {"*", Head(dir)}
              /\ GlobDirs(Tail(pat), Tail(dir))

\* A pattern without a slash is matched against the base name alone.
GlobMatch(pat, f) ==
    /\ pat.ext = f.ext
    /\ (pat.dir = <<>> \/ GlobDirs(pat.dir, f.dir))

\* The overrides whose `files` match f.
AppliedOverrides(f) ==
    {i \in DOMAIN overrides : \E pat \in overrides[i].files : GlobMatch(pat, f)}

\* parserOptions.project of f: the base value, replaced by each matching
\* override that sets one, later entries winning.
RECURSIVE MergeProject(_, _, _)
MergeProject(f, i, acc) ==
    IF i > Len(overrides) THEN acc
    ELSE MergeProject(f, i + 1,
                      IF i \in AppliedOverrides(f) /\ overrides[i].project # <<>>
                      THEN overrides[i].project
                      ELSE acc)

EffectiveProject(f) == MergeProject(f, 1, BaseProject)

LintedFiles == {linted[i].file : i \in DOMAIN linted}

\* ESLint lints one more file of the workspace.
LintFile(f) ==
    /\ f \notin LintedFiles
    /\ linted' = Append(linted, [file |-> f,
                                 applied |-> AppliedOverrides(f),
                                 project |-> EffectiveProject(f)])
    /\ UNCHANGED <<running, bootVars, frameworkVars, hostVars, clientVars>>

LintInit ==
    /\ ServerInit
    /\ othersBound = {}
    /\ env = {}
    /\ linted = <<>>

LintNext == \E f \in LintFiles : LintFile(f)

LintSpec == LintInit /\ [][LintNext]_vars

(***************************************************************************)
(* Properties of the lint configuration.                                   *)
(***************************************************************************)
\* The packages linted with type-aware rules.
TypeAwarePackages == {"client", "server"}

PackageOf(f) ==
    IF Len(f.dir) >= 2 /\ f.dir[1] = "packages" THEN f.dir[2] ELSE "root"

\* A pattern selects a package when it matches files of it and of no other.
SelectsPackage(pat, pkg) ==
    /\ \E f \in LintFiles : GlobMatch(pat, f)
    /\ \A f \in LintFiles : GlobMatch(pat, f) => PackageOf(f) = pkg

\* An overrides entry of the package: a pattern selects it and
\* parserOptions.project is its tsconfig.json.
OverrideOf(o, pkg) ==
    /\ \E pat \in o.files : SelectsPackage(pat, pkg)
    /\ o.project = <<<<"packages", pkg, "tsconfig.json">>>>

\* C6: every file of a package linted with type-aware rules (client, server)
\* is linted under an overrides entry whose files pattern selects its package
\* and whose parserOptions.project is that package's own tsconfig.json.
C6_PerPackageOverride ==
    \A i \in DOMAIN linted :
        PackageOf(linted[i].file) \in TypeAwarePackages =>
            \E j \in linted[i].applied :
                OverrideOf(overrides[j], PackageOf(linted[i].file))

(***************************************************************************)
(* Properties of the bootstrap routine.                                    *)
(***************************************************************************)
PortBound == running /\ 3000 \in boundPorts

StartupFailed == createP = "rejected" \/ listenP = "rejected"

ListenInvoked == \E i \in DOMAIN listenCalls : listenCalls[i].port = 3000

StartupCompleted ==
    /\ createP = "fulfilled"
    /\ app = "INestApplication"
    /\ ListenInvoked
    /\ PortBound

\* Number of accepted, and of answered, requests to the default route.
DefaultIn(s) == Cardinality({i \in DOMAIN s : s[i].path = "/"})

AnsweredDefault ==
    Cardinality({i \in DOMAIN answered :
                    answered[i].path = "/" /\ answered[i].status = 200})

AcceptedDefault == DefaultIn(pending) + DefaultIn(answered)

\* C1: when the process is started and neither NestFactory.create nor
\* app.listen fails, port 3000 is eventually bound; and once it is bound no
\* step of the program unbinds it or ends the process.
C1_BindsAndStaysBound ==
    /\ <>(PortBound \/ StartupFailed)
    /\ [][PortBound => PortBound']_vars

C1_Witness ==
    /\ pc = "returned"
    /\ PortBound
    /\ ~StartupFailed
    /\ sent = MaxRequests

\* C2: a response is written only in states where the application has been
\* created, listen(3000) has been invoked and port 3000 is bound, never before;
\* and every request to the default route the started server has accepted is
\* eventually answered.
C2_AnsweredOnlyWhenStarted ==
    /\ [](answered # <<>> => StartupCompleted)
    /\ [](pending # <<>> => StartupCompleted)
    /\ \A n \in 1..MaxRequests :
           (AcceptedDefault >= n) ~> (AnsweredDefault >= n)

C2_Witness ==
    /\ AnsweredDefault = MaxRequests
    /\ notServed = 0
    /\ pc = "returned"

\* C3: when create or listen fails, bootstrap does not retry (neither call is
\* made a second time), does not recover (nothing is bound, bootstrap never
\* returns normally), never logs the success message, and the failure leaves
\* bootstrap as a rejection nobody handles.
C3_FailurePropagates ==
    /\ [](StartupFailed =>
            /\ Len(createCalls) = 1
            /\ Len(listenCalls) <= 1
            /\ console = <<>>
            /\ boundPorts = {}
            /\ pc \in {"await_create", "await_listen", "threw"})
    /\ [][StartupFailed => StartupFailed']_vars
    /\ StartupFailed ~> (pc = "threw" /\ rejection # "none")

C3_Witness ==
    /\ listenP = "rejected"
    /\ pc = "threw"
    /\ rejection = "listen"
    /\ 3000 \in othersBound
    /\ ~running

\* C4: whatever the PORT variable of the environment holds, the port every
\* listen call asks for, and the port the process has bound, is 3000.
C4_PortIs3000 ==
    /\ \A i \in DOMAIN listenCalls : listenCalls[i].port = 3000
    /\ boundPorts \subseteq {3000}

C4_Witness ==
    /\ env = {8080}
    /\ boundPorts = {3000}
    /\ listenCalls # <<>>

\* C5: the startup message is logged at most once, only after the promise of
\* app.listen(3000) is fulfilled (never before listen is invoked nor while it
\* is pending), and once that promise is fulfilled it is eventually logged.
C5_LoggedOnceAfterListen ==
    /\ [](Len(console) <= 1)
    /\ [](console # <<>> => (ListenInvoked /\ listenP = "fulfilled"))
    /\ (listenP = "fulfilled") ~> (console = <<StartupMessage>>)

C5_Witness ==
    /\ console = <<StartupMessage>>
    /\ listenP = "fulfilled"
    /\ pc = "returned"

\* C7: bootstrap is invoked once (never more, and exactly once as soon as the
\* entry point has run); NestFactory.create and app.listen are each invoked at
\* most once.
C7_SingleStartup ==
    /\ bootstrapCalls <= 1
    /\ (pc # "main" => bootstrapCalls = 1)
    /\ Len(createCalls) <= 1
    /\ Len(listenCalls) <= 1

C7_Witness ==
    /\ bootstrapCalls = 1
    /\ Len(createCalls) = 1
    /\ Len(listenCalls) = 1
    /\ pc = "returned"

\* C8: startup is the sequence create, listen, log: listen is invoked only
\* after create has resolved, on the object create resolved with; the message
\* is logged only after listen; and when create fails listen is never invoked
\* and no port is bound.
C8_CreateThenListenThenLog ==
    /\ listenCalls # <<>> =>
           /\ createP = "fulfilled"
           /\ \A i \in DOMAIN listenCalls :
                  /\ listenCalls[i].target = created
                  /\ listenCalls[i].target = "INestApplication"
    /\ listenP # "none" => listenCalls # <<>>
    /\ console # <<>> => listenCalls # <<>>
    /\ createP = "rejected" => (listenCalls = <<>> /\ boundPorts = {})

C8_Witness ==
    /\ createP = "rejected"
    /\ pc = "threw"
    /\ listenCalls = <<>>

\* C9: whenever the startup message has been logged, the port of the URL it
\* names is the port the application is listening on.
C9_LoggedPortIsBoundPort ==
    \A i \in DOMAIN console : boundPorts = {console[i].port}

C9_Witness ==
    /\ console # <<>>
    /\ boundPorts # {}
    /\ answered # <<>>

====
